---------------------------- MODULE Spec2Model ----------------------------
(***************************************************************************)
(* A model of the python-type-check checker: the type values and their     *)
(* compatibility predicate (type_var.rs), the scope tables and the         *)
(* environment with its registry and live stack (environment.rs,           *)
(* environment/scope.rs), and the checking engine that is driven once per  *)
(* node of a pre-order walk of the syntax tree (checker.rs, ast.rs).       *)
(*                                                                         *)
(* Three specifications share the variables:                               *)
(*   Spec     one check run (Checker::check_module) over a module drawn    *)
(*            from a bounded set of programs;                              *)
(*   SpecEnv  the Environment's operations called in any order;            *)
(*   SpecTy   TypeVar::type_check applied to a pair of type values.        *)
(***************************************************************************)
EXTENDS Integers, Sequences, FiniteSets, TLC

VARIABLES
    env,        \* Checker.env: [live_scopes, scopes]
    errors,     \* Checker.errors: the diagnostics, in the order pushed
    out,        \* the informational lines reveal_type has printed
    prog,       \* the module being checked: indices into StmtPool
    pos,        \* the walk's position in the pre-order node sequence
    status,     \* "running" | "done" | "panic" (a panic aborts the process)
    panic_msg,  \* the message of the panic, "" while there is none
    summary,    \* print_errors' verdict: "" | "passed" | "errors"
    hist,       \* SpecEnv: bookkeeping of the operations performed so far
    tc          \* SpecTy: the operands and the result of type_check

vars == <<env, errors, out, prog, pos, status, panic_msg, summary, hist, tc>>

-----------------------------------------------------------------------------
(* Bounds of the model.                                                    *)

\* The longest module checked, in top-level statements.
MaxStmts == 2

\* The number of Environment operations in one behaviour of SpecEnv.
MaxOps == 5

\* The largest Integer payload among the sampled type values.
MaxInt == 2

-----------------------------------------------------------------------------
(* Option<T>: None is the empty sequence, Some(v) the sequence <<v>>.      *)

NoneOpt == <<>>

Some(v) == <<v>>

Range(s) == {s[i] : i \in 1..Len(s)}

\* HashMap::insert on a map held as a function.
MapPut(m, k, v) == [x \in (DOMAIN m) \cup {k} |-> IF x = k THEN v ELSE m[x]]

\* HashMap::get(..).cloned()
MapGet(m, k) == IF k \in DOMAIN m THEN Some(m[k]) ELSE NoneOpt

EmptyMap == <<>>

-----------------------------------------------------------------------------
(* type_var.rs: Place and TypeVar.                                         *)

Place(name, row, column) == [name |-> name, row |-> row, column |-> column]

\* Place::from_ts_point
from_ts_point(name, point) == Place(name, point.row, point.column)

\* Place::exp_from_ts_point
exp_from_ts_point(point) == Place("exp", point.row, point.column)

TyAny == [tag |-> "Any"]

TyInteger(v) == [tag |-> "Integer", val |-> v]

TyString == [tag |-> "String"]

TyNone == [tag |-> "None"]

TyVar(pl) == [tag |-> "Var", place |-> pl]

TyBinOp(pl) == [tag |-> "BinOp", place |-> pl]

TyCall(pl, args, rets) == [tag |-> "Call", place |-> pl, args |-> args, rets |-> rets]

TyFunction(pl, params, rets) ==
    [tag |-> "Function", place |-> pl, params |-> params, rets |-> rets]

TyUnion(tys) == [tag |-> "Union", tys |-> tys]

\* std::mem::discriminant
discriminant(t) == t.tag

\* Vec::contains: equality with some element, payload included.
contains(tys, x) == \E i \in 1..Len(tys) : tys[i] = x

\* A mutant of type_check: the last arm compares the values, not the tags.
type_check_payload(self, other) ==
    CASE self.tag = "Any" \/ other.tag = "Any" -> [panic |-> "", ok |-> TRUE]
      [] self.tag = "Union" /\ other.tag = "Union" ->
            [panic |-> "not yet implemented", ok |-> FALSE]
      [] self.tag = "Union" -> [panic |-> "", ok |-> contains(self.tys, other)]
      [] other.tag = "Union" -> [panic |-> "", ok |-> contains(other.tys, self)]
      [] OTHER -> [panic |-> "", ok |-> self = other]

\* TypeVar::type_check. The arms are tried in the order written; the
\* Union/Union arm is todo!(), which panics.
type_check(self, other) ==
    CASE self.tag = "Any" \/ other.tag = "Any" -> [panic |-> "", ok |-> TRUE]
      [] self.tag = "Union" /\ other.tag = "Union" ->
            [panic |-> "not yet implemented", ok |-> FALSE]
      [] self.tag = "Union" -> [panic |-> "", ok |-> contains(self.tys, other)]
      [] other.tag = "Union" -> [panic |-> "", ok |-> contains(other.tys, self)]
      [] OTHER -> [panic |-> "", ok |-> discriminant(self) = discriminant(other)]

\* TypeVar::from_type_str: the annotation token's baseline type, None for a
\* token that is not recognised.
from_type_str(token) ==
    CASE token = "int" -> Some(TyInteger(0))
      [] token = "str" -> Some(TyString)
      [] token = "None" -> Some(TyNone)
      [] OTHER -> NoneOpt

-----------------------------------------------------------------------------
(* environment/scope.rs: Scope.                                            *)

\* Scope::new
Scope_new(name) == [name |-> name, bindings |-> EmptyMap, var_place_map |-> EmptyMap]

\* Scope::insert_binding
Scope_insert_binding(sc, pl, ty) == [sc EXCEPT !.bindings = MapPut(@, pl, ty)]

\* Scope::lookup_place
Scope_lookup_place(sc, pl) == MapGet(sc.bindings, pl)

\* Scope::insert_var
Scope_insert_var(sc, var, pl) == [sc EXCEPT !.var_place_map = MapPut(@, var, pl)]

\* Scope::lookup_var
Scope_lookup_var(sc, var) == MapGet(sc.var_place_map, var)

-----------------------------------------------------------------------------
(* environment.rs: Environment.  The registry maps a name to its Scope; a  *)
(* frame of the live stack is a shared handle to a registered Scope, held  *)
(* here as the Scope's name.                                               *)

\* Vec::last on the live stack.
last(e) ==
    IF Len(e.live_scopes) = 0 THEN NoneOpt
    ELSE Some(e.live_scopes[Len(e.live_scopes)])

\* Environment::create_scope
create_scope(e, name) ==
    [live_scopes |-> Append(e.live_scopes, name),
     scopes |-> MapPut(e.scopes, name, Scope_new(name))]

\* Environment::new
Environment_new(name) == create_scope([live_scopes |-> <<>>, scopes |-> EmptyMap], name)

\* A mutant of insert_binding: the write goes to the outermost live scope.
insert_binding_bottom(e, pl, ty) ==
    IF Len(e.live_scopes) = 0 THEN e
    ELSE [e EXCEPT !.scopes[e.live_scopes[1]] = Scope_insert_binding(@, pl, ty)]

\* Environment::insert_binding
insert_binding(e, pl, ty) ==
    IF last(e) = NoneOpt THEN e
    ELSE [e EXCEPT !.scopes[last(e)[1]] = Scope_insert_binding(@, pl, ty)]

\* Environment::insert_var
insert_var(e, var, pl) ==
    IF last(e) = NoneOpt THEN e
    ELSE [e EXCEPT !.scopes[last(e)[1]] = Scope_insert_var(@, var, pl)]

RECURSIVE lookup_binding_from(_, _, _)
\* The loop of lookup_binding over live_scopes.iter().rev(), from frame i.
lookup_binding_from(e, pl, i) ==
    IF i = 0 THEN NoneOpt
    ELSE LET r == Scope_lookup_place(e.scopes[e.live_scopes[i]], pl)
         IN  IF r # NoneOpt THEN r ELSE lookup_binding_from(e, pl, i - 1)

RECURSIVE lookup_binding_up(_, _, _)
\* A mutant of the loop: it runs from the outermost frame inwards.
lookup_binding_up(e, pl, i) ==
    IF i > Len(e.live_scopes) THEN NoneOpt
    ELSE LET r == Scope_lookup_place(e.scopes[e.live_scopes[i]], pl)
         IN  IF r # NoneOpt THEN r ELSE lookup_binding_up(e, pl, i + 1)

\* A mutant of lookup_binding: outermost scope first.
lookup_binding_outer_first(e, pl) == lookup_binding_up(e, pl, 1)

\* Environment::lookup_binding
lookup_binding(e, pl) == lookup_binding_from(e, pl, Len(e.live_scopes))

RECURSIVE lookup_var_from(_, _, _)
\* The loop of lookup_var over live_scopes.iter().rev(), from frame i.
lookup_var_from(e, var, i) ==
    IF i = 0 THEN NoneOpt
    ELSE LET r == Scope_lookup_var(e.scopes[e.live_scopes[i]], var)
         IN  IF r # NoneOpt THEN r ELSE lookup_var_from(e, var, i - 1)

\* Environment::lookup_var
lookup_var(e, var) == lookup_var_from(e, var, Len(e.live_scopes))

\* Environment::var_type
var_type(e, var) ==
    LET p == lookup_var(e, var)
    IN  IF p = NoneOpt THEN NoneOpt ELSE lookup_binding(e, p[1])

\* A mutant of enter_scope: a fresh Scope is created on every entry.
enter_scope_fresh(e, name) == create_scope(e, name)

\* Environment::enter_scope.  The ScopeGuard it returns is the caller's
\* obligation to call ScopeGuard_drop once.
enter_scope(e, name) ==
    IF name \in DOMAIN e.scopes
    THEN [e EXCEPT !.live_scopes = Append(@, name)]
    ELSE create_scope(e, name)

\* Vec::pop: nothing happens on an empty stack.
pop(e) ==
    IF Len(e.live_scopes) = 0 THEN e
    ELSE [e EXCEPT !.live_scopes = SubSeq(@, 1, Len(@) - 1)]

\* Environment::leave_scope
leave_scope(e) == pop(e)

\* A mutant of ScopeGuard::drop: the frame stays on the stack.
ScopeGuard_drop_forgotten(e) == e

\* <ScopeGuard as Drop>::drop
ScopeGuard_drop(e) == pop(e)

-----------------------------------------------------------------------------
(* The syntax tree the parser hands to the checker (ast.rs: parse).  A     *)
(* tree is written down as its tokens and named nodes; Layout gives every  *)
(* node its source text and its start and end points, as tree-sitter does. *)

Point(row, column) == [row |-> row, column |-> column]

\* A named leaf, an anonymous token, a blank, a line break, an inner node.
Leaf(kind, text) == [kind |-> kind, named |-> TRUE, text |-> text, parts |-> <<>>]

Tok(text) == [kind |-> text, named |-> FALSE, text |-> text, parts |-> <<>>]

WS == [kind |-> "ws", named |-> FALSE, text |-> " ", parts |-> <<>>]

NL == [kind |-> "nl", named |-> FALSE, text |-> "\n", parts |-> <<>>]

N(kind, parts) == [kind |-> kind, named |-> TRUE, parts |-> parts]

\* A child with the field name it is reached by, "" for none.
P(field, t) == [field |-> field, t |-> t]

U(t) == [field |-> "", t |-> t]

RECURSIVE Layout(_, _)
RECURSIVE LayoutParts(_, _, _, _)
\* The children of a node laid out from point pt on, blanks dropped.
LayoutParts(parts, i, pt, acc) ==
    IF i > Len(parts) THEN [children |-> acc.children, text |-> acc.text, pt |-> pt]
    ELSE LET t == parts[i].t IN
         CASE t.kind = "ws" ->
                LayoutParts(parts, i + 1, Point(pt.row, pt.column + 1),
                            [acc EXCEPT !.text = @ \o " "])
           [] t.kind = "nl" ->
                LayoutParts(parts, i + 1, Point(pt.row + 1, 0),
                            [acc EXCEPT !.text = @ \o "\n"])
           [] OTHER ->
                LET n == Layout(t, pt)
                IN  LayoutParts(parts, i + 1, n.ep,
                        [children |-> Append(acc.children,
                                             [field |-> parts[i].field, node |-> n]),
                         text |-> acc.text \o n.text])

\* A node: its kind, whether it is named, the source text it spans
\* (utf8_text), start_position, end_position and its children.
Layout(t, pt) ==
    IF t.parts = <<>>
    THEN [kind |-> t.kind, named |-> t.named, text |-> t.text, sp |-> pt,
          ep |-> Point(pt.row, pt.column + Len(t.text)), children |-> <<>>]
    ELSE LET r == LayoutParts(t.parts, 1, pt, [children |-> <<>>, text |-> ""])
         IN  [kind |-> t.kind, named |-> t.named, text |-> r.text, sp |-> pt,
              ep |-> r.pt, children |-> r.children]

\* Node::utf8_text
utf8_text(node) == node.text

\* Node::child_by_field_name
child_by_field_name(node, name) ==
    LET idx == {i \in 1..Len(node.children) : node.children[i].field = name}
    IN  IF idx = {} THEN NoneOpt
        ELSE Some(node.children[CHOOSE i \in idx : \A j \in idx : i <= j].node)

IsNamed(c) == c.node.named

\* Node::named_children
named_children(node) ==
    LET cs == SelectSeq(node.children, IsNamed)
    IN  [i \in 1..Len(cs) |-> cs[i].node]

\* Node::named_child
named_child(node, k) ==
    LET cs == named_children(node)
    IN  IF k + 1 <= Len(cs) THEN Some(cs[k + 1]) ELSE NoneOpt

RECURSIVE visit_all_children(_)
RECURSIVE visit_siblings(_, _)
\* The loop of visit_all_children over a node's children, from child i.
visit_siblings(cs, i) ==
    IF i > Len(cs) THEN <<>>
    ELSE visit_all_children(cs[i].node) \o visit_siblings(cs, i + 1)

\* ast.rs visit_all_children: the nodes in the order the callback sees
\* them, the node first and then each child's subtree.
visit_all_children(node) == <<node>> \o visit_siblings(node.children, 1)

-----------------------------------------------------------------------------
(* The statements the checked modules are made of.                         *)

Id(name) == Leaf("identifier", name)

IntLit(text) == Leaf("integer", text)

StrLit(content) ==
    N("string", <<U(Leaf("string_start", "\"")), U(Leaf("string_content", content)),
                  U(Leaf("string_end", "\""))>>)

TypeT(token) == N("type", <<U(Id(token))>>)

BinOpT(l, r) ==
    N("binary_operator", <<P("left", l), U(WS), P("operator", Tok("+")), U(WS),
                           P("right", r)>>)

Assign(id, rhs) ==
    N("assignment", <<P("left", Id(id)), U(WS), U(Tok("=")), U(WS), P("right", rhs)>>)

AnnAssign(id, token, rhs) ==
    N("assignment", <<P("left", Id(id)), U(Tok(":")), U(WS), P("type", TypeT(token)),
                      U(WS), U(Tok("=")), U(WS), P("right", rhs)>>)

ExprStmt(e) == N("expression_statement", <<U(e)>>)

RECURSIVE CommaList(_, _)
\* items[i..] separated by ", ".
CommaList(items, i) ==
    IF i > Len(items) THEN <<>>
    ELSE (IF i > 1 THEN <<U(Tok(",")), U(WS)>> ELSE <<>>)
         \o <<U(items[i])>> \o CommaList(items, i + 1)

ArgList(args) == N("argument_list", <<U(Tok("("))>> \o CommaList(args, 1) \o <<U(Tok(")"))>>)

CallT(fn, args) == N("call", <<P("function", Id(fn)), P("arguments", ArgList(args))>>)

TypedParam(name, token) ==
    N("typed_parameter", <<U(Id(name)), U(Tok(":")), U(WS), P("type", TypeT(token))>>)

Params(ps) == N("parameters", <<U(Tok("("))>> \o CommaList(ps, 1) \o <<U(Tok(")"))>>)

ReturnT(e) == N("return_statement", <<U(Tok("return")), U(WS), U(e)>>)

RECURSIVE SemiList(_, _)
\* stmts[i..] separated by "; ".
SemiList(stmts, i) ==
    IF i > Len(stmts) THEN <<>>
    ELSE (IF i > 1 THEN <<U(Tok(";")), U(WS)>> ELSE <<>>)
         \o <<U(stmts[i])>> \o SemiList(stmts, i + 1)

Block(stmts) == N("block", SemiList(stmts, 1))

\* An argument list that is empty and broken over two lines.
BrokenArgList == N("argument_list", <<U(Tok("(")), U(NL), U(Tok(")"))>>)

\* def name(ps): body      and      def name(ps) -> token: body
FuncDef(name, ps, body) ==
    N("function_definition",
      <<U(Tok("def")), U(WS), P("name", Id(name)), P("parameters", Params(ps)),
        U(Tok(":")), U(WS), P("body", Block(body))>>)

FuncDefRet(name, ps, token, body) ==
    N("function_definition",
      <<U(Tok("def")), U(WS), P("name", Id(name)), P("parameters", Params(ps)),
        U(WS), U(Tok("->")), U(WS), P("return_type", TypeT(token)),
        U(Tok(":")), U(WS), P("body", Block(body))>>)

StmtPool ==
    << ExprStmt(Assign("c", BinOpT(IntLit("1"), StrLit("x")))),        \* c = 1 + "x"
       ExprStmt(Assign("x", IntLit("1"))),                             \* x = 1
       ExprStmt(Assign("x", StrLit("a"))),                             \* x = "a"
       ExprStmt(AnnAssign("x", "int", IntLit("1"))),                   \* x: int = 1
       ExprStmt(AnnAssign("x", "str", IntLit("1"))),                   \* x: str = 1
       ExprStmt(AnnAssign("x", "int", BinOpT(IntLit("1"), IntLit("2")))), \* x: int = 1 + 2
       ExprStmt(AnnAssign("x", "foo", IntLit("1"))),                   \* x: foo = 1
       ExprStmt(Assign("y", Id("x"))),                                 \* y = x
       ExprStmt(BinOpT(IntLit("1"), IntLit("2"))),                     \* 1 + 2
       ExprStmt(BinOpT(Id("x"), IntLit("1"))),                         \* x + 1
       FuncDefRet("f", <<TypedParam("x", "int")>>, "int", <<ReturnT(Id("x"))>>),
                                                    \* def f(x: int) -> int: return x
       FuncDef("f", <<Id("x")>>, <<ReturnT(Id("x"))>>),               \* def f(x): return x
       FuncDef("f", <<TypedParam("a", "int"), TypedParam("b", "str")>>,
               <<ReturnT(IntLit("1")), ReturnT(StrLit("a"))>>),
                                       \* def f(a: int, b: str): return 1; return "a"
       FuncDef("f", <<>>, <<ReturnT(CallT("f", <<>>))>>),             \* def f(): return f()
       FuncDef("f", <<Id("f")>>, <<ReturnT(IntLit("1")), ReturnT(IntLit("1"))>>),
                                                    \* def f(f): return 1; return 1
       FuncDefRet("g", <<Id("a")>>, "str",
                  <<ReturnT(IntLit("1")), ReturnT(IntLit("2")), ReturnT(Id("a"))>>),
                                       \* def g(a) -> str: return 1; return 2; return a
       ExprStmt(CallT("f", <<StrLit("a")>>)),                          \* f("a")
       ExprStmt(CallT("f", <<IntLit("1")>>)),                          \* f(1)
       ExprStmt(CallT("f", <<IntLit("1"), IntLit("2")>>)),             \* f(1, 2)
       ExprStmt(CallT("f", <<StrLit("a"), IntLit("1")>>)),             \* f("a", 1)
       ExprStmt(CallT("f", <<Id("y")>>)),                              \* f(y)
       ExprStmt(Assign("z", CallT("f", <<IntLit("1")>>))),             \* z = f(1)
       ExprStmt(CallT("reveal_type", <<Id("x")>>)),                    \* reveal_type(x)
       ExprStmt(N("call", <<P("function", Id("reveal_type")),
                            P("arguments", BrokenArgList)>>)),
                                       \* reveal_type(   with the ")" on the next line
       ExprStmt(CallT("reveal_type", <<Id("x"), Id("y")>>)),           \* reveal_type(x, y)
       FuncDef("h", <<Id("a")>>,
               <<ExprStmt(Assign("y", BinOpT(IntLit("1"), IntLit("2"))))>>)
                                                    \* def h(a): y = 1 + 2
    >>

\* The modules checked: one to MaxStmts statements of the pool, one a line.
Programs == UNION {[1..n -> 1..Len(StmtPool)] : n \in 1..MaxStmts}

RECURSIVE Lines(_, _)
\* The statements p[i..], a line break between two.
Lines(p, i) ==
    IF i > Len(p) THEN <<>>
    ELSE (IF i > 1 THEN <<U(NL)>> ELSE <<>>) \o <<U(StmtPool[p[i]])>> \o Lines(p, i + 1)

\* The tree of module p, as parse returns it.
parse(p) == Layout(N("module", Lines(p, 1)), Point(0, 0))

RECURSIVE Pow(_, _)
Pow(b, n) == IF n = 0 THEN 1 ELSE b * Pow(b, n - 1)

RECURSIVE ShorterThan(_)
\* The number of modules of fewer than n statements.
ShorterThan(n) == IF n <= 1 THEN 0 ELSE Pow(Len(StmtPool), n - 1) + ShorterThan(n - 1)

RECURSIVE Digits(_, _)
\* p[i..] read as a number in base Len(StmtPool), p[i] the lowest digit.
Digits(p, i) ==
    IF i > Len(p) THEN 0 ELSE (p[i] - 1) + Len(StmtPool) * Digits(p, i + 1)

\* The modules numbered from 1: by length, then by their statements.
ProgIndex(p) == ShorterThan(Len(p)) + Digits(p, 1) + 1

\* The module with number k.
ProgAt(k) ==
    LET n == CHOOSE m \in 1..MaxStmts : ShorterThan(m) < k /\ k <= ShorterThan(m + 1)
    IN  [i \in 1..n |->
            (((k - 1 - ShorterThan(n)) \div Pow(Len(StmtPool), i - 1)) % Len(StmtPool)) + 1]

\* The nodes check_module's walk visits, in order, for every module, as a
\* table indexed by the module's number.
WalkTable ==
    SubSeq([k \in 1..ShorterThan(MaxStmts + 1) |-> visit_all_children(parse(ProgAt(k)))],
           1, ShorterThan(MaxStmts + 1))

\* The nodes of module p in the order check_module's walk visits them.
Walk(p) == WalkTable[ProgIndex(p)]

-----------------------------------------------------------------------------
(* checker.rs: CheckErr and the Checker.  A function of the checker that   *)
(* can panic returns a record whose panic field holds the message ("" for  *)
(* none); a panic aborts the process, so the caller passes it on.  A long  *)
(* function is written as its stages, each handed what the stage before    *)
(* it computed.                                                            *)

\* CheckErr::new.  msg is the constant text of the message, args the values
\* formatted into it.
CheckErr_new(msg, args, start_place, end_place) ==
    [msg |-> msg, args |-> args, start_place |-> start_place, end_place |-> end_place]

\* CheckErr::new_from_node
new_from_node(msg, args, n) ==
    CheckErr_new(msg, args, from_ts_point("start", n.sp),
                 Some(from_ts_point("end", n.ep)))

\* The file name Checker::new is given; it names the module-level scope.
FileName == "test.py"

\* str::parse::<usize> on the text of an integer literal of one digit.
parse_usize(text) ==
    LET digits == <<"0", "1", "2", "3", "4", "5", "6", "7", "8", "9">>
        idx == {i \in 1..Len(digits) : digits[i] = text}
    IN  IF idx = {} THEN NoneOpt ELSE Some((CHOOSE i \in idx : TRUE) - 1)

TyOk(ty) == [panic |-> "", ty |-> Some(ty)]

TyAbsent == [panic |-> "", ty |-> NoneOpt]

TyPanic(msg) == [panic |-> msg, ty |-> NoneOpt]

\* Option::expect on a type that may be absent.
expect_ty(opt, msg) == IF opt = NoneOpt THEN TyPanic(msg) ELSE TyOk(opt[1])

\* The "identifier" arm of infer_type_for_node.
infer_identifier(e, node) ==
    expect_ty(var_type(e, utf8_text(node)), "couldnt find type for var")

\* The "integer" arm of infer_type_for_node.
infer_integer(v) == IF v = NoneOpt THEN TyPanic("error parsing") ELSE TyOk(TyInteger(v[1]))

\* The "typed_parameter" arm of infer_type_for_node.
infer_typed_parameter(ty_node) ==
    IF ty_node = NoneOpt THEN TyPanic("called Option::unwrap() on a None value")
    ELSE expect_ty(from_type_str(utf8_text(ty_node[1])), "error getting type")

\* The "binary_operator" arm of infer_type_for_node.
infer_binary_operator(node) == TyBinOp(from_ts_point("binop", node.sp))

\* The "call" arm of infer_type_for_node, given the callee's inferred type.
infer_call(sig) ==
    IF sig.panic # "" \/ sig.ty = NoneOpt THEN sig
    ELSE IF sig.ty[1].tag = "Function"
    THEN IF Len(sig.ty[1].rets) = 1 THEN TyOk(sig.ty[1].rets[1])
         ELSE TyOk(TyUnion(sig.ty[1].rets))
    ELSE TyOk(TyNone)

\* The "return_statement" arm, given the returned expression's type.
infer_return(r) ==
    IF r.panic = "" /\ r.ty = NoneOpt THEN TyPanic("invalid return statement") ELSE r

RECURSIVE infer_type_for_node(_, _)
\* Checker::infer_type_for_node
infer_type_for_node(e, node) ==
    CASE node.kind = "identifier" -> infer_identifier(e, node)
      [] node.kind = "call" ->
            IF child_by_field_name(node, "function") = NoneOpt
            THEN TyPanic("getting fn name")
            ELSE infer_call(infer_type_for_node(e, child_by_field_name(node, "function")[1]))
      [] node.kind = "integer" -> infer_integer(parse_usize(utf8_text(node)))
      [] node.kind = "string" -> TyOk(TyString)
      [] node.kind = "return_statement" ->
            IF named_child(node, 0) = NoneOpt THEN TyOk(TyNone)
            ELSE infer_return(infer_type_for_node(e, named_child(node, 0)[1]))
      [] node.kind = "binary_operator" -> TyOk(infer_binary_operator(node))
      [] node.kind = "typed_parameter" ->
            infer_typed_parameter(child_by_field_name(node, "type"))
      [] node.kind = "none" -> TyOk(TyNone)
      [] OTHER -> TyOk(TyVar(exp_from_ts_point(node.sp)))

\* What a handler of check_visit leaves behind: the environment, the error
\* list after the pushes of the handler, the lines printed, the Err it
\* returned (None for Ok or for no result) and the panic, if any.
Done(e, errs, o, res) == [e |-> e, errs |-> errs, out |-> o, res |-> res, panic |-> ""]

Aborted(e, errs, o, msg) == [e |-> e, errs |-> errs, out |-> o, res |-> NoneOpt, panic |-> msg]

\* infer_fn_body's callback at a return statement whose type is r.
return_seen(st, node, r, allowed_types) ==
    IF r.panic # "" THEN [st EXCEPT !.panic = r.panic]
    ELSE IF r.ty = NoneOpt THEN [st EXCEPT !.panic = "error infering return"]
    ELSE [errs |-> IF allowed_types # NoneOpt /\ ~contains(allowed_types[1], r.ty[1])
                   THEN Append(st.errs, new_from_node("Unexpected return type",
                                            <<r.ty[1], allowed_types[1]>>, node))
                   ELSE st.errs,
          types |-> Append(st.types, r.ty[1]),
          panic |-> ""]

RECURSIVE infer_fn_body_loop(_, _, _, _, _)
\* The callback of infer_fn_body over the nodes ns[i..] of the body.
infer_fn_body_loop(e, st, ns, i, allowed_types) ==
    IF i > Len(ns) \/ st.panic # "" THEN st
    ELSE IF ns[i].kind # "return_statement"
    THEN infer_fn_body_loop(e, st, ns, i + 1, allowed_types)
    ELSE infer_fn_body_loop(e,
            return_seen(st, ns[i], infer_type_for_node(e, ns[i]), allowed_types),
            ns, i + 1, allowed_types)

\* The match that ends infer_fn_body.
fn_body_types(st) ==
    IF st.panic = "" /\ Len(st.types) = 0 THEN [st EXCEPT !.types = <<TyNone>>] ELSE st

\* Checker::infer_fn_body
infer_fn_body(e, errs, node, allowed_types) ==
    fn_body_types(infer_fn_body_loop(e, [errs |-> errs, types |-> <<>>, panic |-> ""],
                                     visit_all_children(node), 1, allowed_types))

\* One turn of the parameter loop of check_function_def: the parameter's
\* type p is pushed and bound under the parameter node's text.
param_seen(st, node, p) ==
    IF p.panic # "" THEN [st EXCEPT !.panic = p.panic]
    ELSE IF p.ty = NoneOpt THEN [st EXCEPT !.panic = "error getting param type"]
    ELSE [e |-> insert_var(
                  insert_binding(st.e, from_ts_point(utf8_text(node), node.sp), p.ty[1]),
                  utf8_text(node), from_ts_point(utf8_text(node), node.sp)),
          types |-> Append(st.types, p.ty[1]),
          panic |-> ""]

RECURSIVE param_loop(_, _, _)
\* The loop of check_function_def over the named children of the parameters.
param_loop(st, ps, i) ==
    IF i > Len(ps) \/ st.panic # "" THEN st
    ELSE param_loop(
            param_seen(st, ps[i],
                       IF ps[i].kind = "typed_parameter"
                       THEN infer_type_for_node(st.e, ps[i]) ELSE TyOk(TyAny)),
            ps, i + 1)

\* A mutant of fn_def_bind: the function is bound before its scope is left.
fn_def_bind_inside(o, fn_name, fn_place, ps, body, return_type) ==
    IF body.panic # "" THEN Aborted(ScopeGuard_drop(ps.e), body.errs, o, body.panic)
    ELSE Done(ScopeGuard_drop(
                insert_var(
                  insert_binding(ps.e, fn_place,
                                 TyFunction(fn_place, ps.types, return_type)),
                  fn_name, fn_place)),
              body.errs, o, NoneOpt)

\* check_function_def from drop(_scope_guard) on: the function's scope is
\* left and the function is bound in the scope below it.
fn_def_bind(o, fn_name, fn_place, ps, body, return_type) ==
    IF body.panic # "" THEN Aborted(ScopeGuard_drop(ps.e), body.errs, o, body.panic)
    ELSE Done(insert_var(
                insert_binding(ScopeGuard_drop(ps.e), fn_place,
                               TyFunction(fn_place, ps.types, return_type)),
                fn_name, fn_place),
              body.errs, o, NoneOpt)

\* check_function_def with a return_type annotation whose type is declared.
fn_def_declared(errs, o, fn_name, fn_place, body_node, ps, declared) ==
    IF declared = NoneOpt THEN Aborted(ScopeGuard_drop(ps.e), errs, o, "couldnt get type")
    ELSE fn_def_bind(o, fn_name, fn_place, ps,
                     infer_fn_body(ps.e, errs, body_node, Some(<<declared[1]>>)),
                     <<declared[1]>>)

\* check_function_def after the parameter loop, whose result is ps.
fn_def_return(errs, o, node, fn_name, fn_place, body_node, ps) ==
    IF ps.panic # "" THEN Aborted(ScopeGuard_drop(ps.e), errs, o, ps.panic)
    ELSE IF child_by_field_name(node, "return_type") # NoneOpt
    THEN fn_def_declared(errs, o, fn_name, fn_place, body_node, ps,
            from_type_str(utf8_text(child_by_field_name(node, "return_type")[1])))
    ELSE fn_def_bind(o, fn_name, fn_place, ps,
                     infer_fn_body(ps.e, errs, body_node, NoneOpt),
                     infer_fn_body(ps.e, errs, body_node, NoneOpt).types)

\* check_function_def once the name, parameters and body nodes are at hand.
fn_def_enter(e, errs, o, node, fn_name, param_node, body_node) ==
    fn_def_return(errs, o, node, fn_name, from_ts_point(fn_name, node.sp), body_node,
        param_loop([e |-> enter_scope(e, fn_name), types |-> <<>>, panic |-> ""],
                   named_children(param_node), 1))

\* Checker::check_function_def
check_function_def(e, errs, o, node) ==
    IF child_by_field_name(node, "name") = NoneOpt THEN Aborted(e, errs, o, "no fn name")
    ELSE IF child_by_field_name(node, "parameters") = NoneOpt
    THEN Aborted(e, errs, o, "no parameters")
    ELSE IF child_by_field_name(node, "body") = NoneOpt
    THEN Aborted(e, errs, o, "error getting fn body")
    ELSE fn_def_enter(e, errs, o, node,
                      utf8_text(child_by_field_name(node, "name")[1]),
                      child_by_field_name(node, "parameters")[1],
                      child_by_field_name(node, "body")[1])

\* The closure of call_reveal_type at argument arg whose type is ty.
reveal_seen(o, node, arg, ty) ==
    IF ty = NoneOpt THEN o
    ELSE Append(o, [row |-> node.sp.row + 1, column |-> node.sp.column,
                    arg |-> arg, ty |-> ty[1]])

RECURSIVE reveal_loop(_, _, _, _, _)
\* The map of call_reveal_type over the arguments ns[i..]: the lines printed.
reveal_loop(e, node, ns, i, o) ==
    IF i > Len(ns) THEN o
    ELSE reveal_loop(e, node, ns, i + 1,
                     reveal_seen(o, node, utf8_text(ns[i]), var_type(e, utf8_text(ns[i]))))

\* A mutant of reveal_args: an empty argument list is accepted.
reveal_args_lenient(e, errs, o, node, fn_args_list, ns) ==
    IF Len(ns) > 1
    THEN Done(e, errs, reveal_loop(e, node, ns, 1, o),
              Some(new_from_node("To many arguments", <<>>, fn_args_list)))
    ELSE Done(e, errs, reveal_loop(e, node, ns, 1, o), NoneOpt)

\* call_reveal_type once the argument list is at hand.
reveal_args(e, errs, o, node, fn_args_list, ns) ==
    IF Len(ns) > 1
    THEN Done(e, errs, reveal_loop(e, node, ns, 1, o),
              Some(new_from_node("To many arguments", <<>>, fn_args_list)))
    ELSE IF Len(ns) = 0
    THEN Done(e, errs, o, Some(new_from_node("No argument give", <<>>, fn_args_list)))
    ELSE Done(e, errs, reveal_loop(e, node, ns, 1, o), NoneOpt)

\* Checker::call_reveal_type
call_reveal_type(e, errs, o, node) ==
    IF child_by_field_name(node, "arguments") = NoneOpt
    THEN Aborted(e, errs, o, "error getting args")
    ELSE reveal_args(e, errs, o, node, child_by_field_name(node, "arguments")[1],
                     named_children(child_by_field_name(node, "arguments")[1]))

\* The closure of check_fn_call's map at argument n whose inferred type is r.
arg_seen(st, n, r) ==
    IF r.panic # "" THEN [st EXCEPT !.panic = r.panic]
    ELSE [st EXCEPT !.types = Append(@, [n |-> n, ty |-> r.ty])]

RECURSIVE arg_types_loop(_, _, _, _)
\* The map of check_fn_call over the arguments ns[i..]: each with its type.
arg_types_loop(e, ns, i, st) ==
    IF i > Len(ns) \/ st.panic # "" THEN st
    ELSE arg_types_loop(e, ns, i + 1, arg_seen(st, ns[i], infer_type_for_node(e, ns[i])))

\* One turn of the comparing loop: argument a against parameter b, whose
\* type_check gave c.
compared(st, fn_name, a, b, c) ==
    IF c.panic # "" THEN [st EXCEPT !.panic = c.panic]
    ELSE IF c.ok THEN st
    ELSE [st EXCEPT !.errs = Append(@,
            CheckErr_new("Type mismatch calling fn", <<fn_name, b, a.ty[1]>>,
                         from_ts_point("arg", a.n.sp),
                         Some(from_ts_point("arg", a.n.ep))))]

RECURSIVE compare_loop(_, _, _, _, _)
\* The loop of check_fn_call that compares arguments and parameters.
compare_loop(fn_name, arg_types, params, idx, st) ==
    IF idx > Len(arg_types) \/ st.panic # "" THEN st
    ELSE IF arg_types[idx].ty = NoneOpt
    THEN compare_loop(fn_name, arg_types, params, idx + 1,
            [st EXCEPT !.errs = Append(@,
                CheckErr_new("no type available", <<>>,
                             from_ts_point("fnarg", arg_types[idx].n.sp), NoneOpt))])
    ELSE compare_loop(fn_name, arg_types, params, idx + 1,
            compared(st, fn_name, arg_types[idx], params[idx],
                     type_check(arg_types[idx].ty[1], params[idx])))

\* The end of check_fn_call, after the comparing loop.
fn_call_end(entered, o, cmp) ==
    IF cmp.panic # "" THEN Aborted(ScopeGuard_drop(entered), cmp.errs, o, cmp.panic)
    ELSE Done(ScopeGuard_drop(entered), cmp.errs, o, NoneOpt)

\* check_fn_call with the signature's parameters and the arguments' types.
fn_call_check(entered, errs, o, node, fn_name, params, args) ==
    IF args.panic # "" THEN Aborted(ScopeGuard_drop(entered), errs, o, args.panic)
    ELSE IF Len(args.types) # Len(params)
    THEN Done(ScopeGuard_drop(entered), errs, o,
              Some(CheckErr_new("Fn called with args expected",
                                <<Len(args.types), Len(params)>>,
                                from_ts_point("fncall", node.sp),
                                Some(from_ts_point("fncall", node.ep)))))
    ELSE fn_call_end(entered, o,
                     compare_loop(fn_name, args.types, params, 1,
                                  [errs |-> errs, panic |-> ""]))

\* check_fn_call from enter_scope on: entered is the environment with the
\* callee's scope pushed, fn_sig the callee's type looked up in it.  The
\* guard is dropped on every way out.
fn_call_entered(entered, errs, o, node, fn_name, fn_sig) ==
    IF child_by_field_name(node, "arguments") = NoneOpt
    THEN Aborted(ScopeGuard_drop(entered), errs, o, "error getting args")
    ELSE IF fn_sig = NoneOpt \/ fn_sig[1].tag # "Function"
    THEN Done(ScopeGuard_drop(entered), errs, o, NoneOpt)
    ELSE fn_call_check(entered, errs, o, node, fn_name, fn_sig[1].params,
            arg_types_loop(entered,
                           named_children(child_by_field_name(node, "arguments")[1]),
                           1, [types |-> <<>>, panic |-> ""]))

\* check_fn_call once the callee's name is at hand.
fn_call_named(e, errs, o, node, fn_name) ==
    IF fn_name = "reveal_type" THEN call_reveal_type(e, errs, o, node)
    ELSE fn_call_entered(enter_scope(e, fn_name), errs, o, node, fn_name,
                         var_type(enter_scope(e, fn_name), fn_name))

\* Checker::check_fn_call
check_fn_call(e, errs, o, node) ==
    IF child_by_field_name(node, "function") = NoneOpt
    THEN Aborted(e, errs, o, "error getting fn name")
    ELSE fn_call_named(e, errs, o, node,
                       utf8_text(child_by_field_name(node, "function")[1]))

\* The rule table of check_binop: the result type, None for a pair of
\* operand types it does not handle.
binop_return_type(a1_type, a2_type) ==
    CASE a1_type.tag = "Integer" /\ a2_type.tag = "Integer" ->
            Some(TyInteger(a1_type.val + a2_type.val))
      [] a1_type.tag = "String" /\ a2_type.tag = "String" -> Some(TyString)
      [] OTHER -> NoneOpt

\* check_binop's four insertions.
binop_insert(e, binop_place, a1_place, a2_place, return_place, a1_type, a2_type, return_type) ==
    insert_binding(
      insert_binding(
        insert_binding(
          insert_binding(e, binop_place,
                         TyCall(binop_place, <<a1_type, a2_type>>, <<return_type>>)),
          a1_place, a1_type),
        a2_place, a2_type),
      return_place, return_type)

\* A mutant of binop_typed: the operands are recorded before the pair is
\* rejected.
binop_typed_records_first(e, errs, o, node, arg1, arg2, a1_type, a2_type, return_type) ==
    IF return_type = NoneOpt
    THEN Done(insert_binding(e, from_ts_point("arg1", arg1.sp), a1_type), errs, o,
              Some(CheckErr_new("Invalid types for BinOp", <<a1_type, a2_type>>,
                                from_ts_point("binop", node.sp),
                                Some(from_ts_point("binop", node.ep)))))
    ELSE Done(binop_insert(e, from_ts_point("binop", node.sp),
                           from_ts_point("arg1", arg1.sp), from_ts_point("arg2", arg2.sp),
                           from_ts_point("return", node.sp),
                           a1_type, a2_type, return_type[1]),
              errs, o, NoneOpt)

\* check_binop from the match on the operand types on.
binop_typed(e, errs, o, node, arg1, arg2, a1_type, a2_type, return_type) ==
    IF return_type = NoneOpt
    THEN Done(e, errs, o,
              Some(CheckErr_new("Invalid types for BinOp", <<a1_type, a2_type>>,
                                from_ts_point("binop", node.sp),
                                Some(from_ts_point("binop", node.ep)))))
    ELSE Done(binop_insert(e, from_ts_point("binop", node.sp),
                           from_ts_point("arg1", arg1.sp), from_ts_point("arg2", arg2.sp),
                           from_ts_point("return", node.sp),
                           a1_type, a2_type, return_type[1]),
              errs, o, NoneOpt)

\* check_binop once both operands' types a1 and a2 are inferred.
binop_inferred(e, errs, o, node, arg1, arg2, a1, a2) ==
    IF a1.panic # "" THEN Aborted(e, errs, o, a1.panic)
    ELSE IF a1.ty = NoneOpt THEN Aborted(e, errs, o, "no type infered")
    ELSE IF a2.panic # "" THEN Aborted(e, errs, o, a2.panic)
    ELSE IF a2.ty = NoneOpt THEN Aborted(e, errs, o, "no type infered")
    ELSE binop_typed(e, errs, o, node, arg1, arg2, a1.ty[1], a2.ty[1],
                     binop_return_type(a1.ty[1], a2.ty[1]))

\* Checker::check_binop
check_binop(e, errs, o, node) ==
    IF child_by_field_name(node, "left") = NoneOpt
    THEN Aborted(e, errs, o, "error getting lhs")
    ELSE IF child_by_field_name(node, "right") = NoneOpt
    THEN Aborted(e, errs, o, "error getting rhs")
    ELSE binop_inferred(e, errs, o, node,
            child_by_field_name(node, "left")[1], child_by_field_name(node, "right")[1],
            infer_type_for_node(e, child_by_field_name(node, "left")[1]),
            infer_type_for_node(e, child_by_field_name(node, "right")[1]))

\* check_assignment's annotated branch, after the two insertions: c is
\* what type_check(declared, inferred) gave.
assign_checked(e1, errs, o, node, id, ty, rhs_type, c) ==
    IF c.panic # "" THEN Aborted(e1, errs, o, c.panic)
    ELSE IF ~c.ok
    THEN Done(e1, errs, o,
              Some(new_from_node("Mismatched types while assigning",
                                 <<id, ty, rhs_type>>, node)))
    ELSE Done(e1, errs, o, NoneOpt)

\* A mutant of assign_declared: the left side is bound only if the value
\* is compatible with the declared type.
assign_declared_binds_on_success(e, errs, o, node, id, left_place, rhs_type, ty) ==
    IF ty = NoneOpt THEN Aborted(e, errs, o, "unable to get type")
    ELSE assign_checked(IF type_check(ty[1], rhs_type).ok
                        THEN insert_var(insert_binding(e, left_place, ty[1]), id, left_place)
                        ELSE e,
                        errs, o, node, id, ty[1], rhs_type,
                        type_check(ty[1], rhs_type))

\* check_assignment's annotated branch: ty is from_type_str's answer.
assign_declared(e, errs, o, node, id, left_place, rhs_type, ty) ==
    IF ty = NoneOpt THEN Aborted(e, errs, o, "unable to get type")
    ELSE assign_checked(insert_var(insert_binding(e, left_place, ty[1]), id, left_place),
                        errs, o, node, id, ty[1], rhs_type,
                        type_check(ty[1], rhs_type))

\* check_assignment once the right side's type r is inferred.
assign_inferred(e, errs, o, node, id, left_place, r) ==
    IF r.panic # "" THEN Aborted(e, errs, o, r.panic)
    ELSE IF r.ty = NoneOpt THEN Aborted(e, errs, o, "couldnt infer rhs")
    ELSE IF child_by_field_name(node, "type") # NoneOpt
    THEN assign_declared(e, errs, o, node, id, left_place, r.ty[1],
            from_type_str(utf8_text(child_by_field_name(node, "type")[1])))
    ELSE Done(insert_var(insert_binding(e, left_place, r.ty[1]), id, left_place),
              errs, o, NoneOpt)

\* Checker::check_assignment
check_assignment(e, errs, o, node) ==
    IF child_by_field_name(node, "left") = NoneOpt
    THEN Aborted(e, errs, o, "No lhs in assignment")
    ELSE IF child_by_field_name(node, "right") = NoneOpt
    THEN Aborted(e, errs, o, "No rhs in assignment")
    ELSE assign_inferred(e, errs, o, node,
            utf8_text(child_by_field_name(node, "left")[1]),
            from_ts_point(utf8_text(child_by_field_name(node, "left")[1]),
                          child_by_field_name(node, "left")[1].sp),
            infer_type_for_node(e, child_by_field_name(node, "right")[1]))

\* The unwrap_or_else of check_visit: an Err is pushed onto the error list.
push_err(r) ==
    IF r.panic = "" /\ r.res # NoneOpt
    THEN [r EXCEPT !.errs = Append(@, r.res[1]), !.res = NoneOpt]
    ELSE r

\* Checker::check_visit
check_visit(e, errs, o, node) ==
    CASE node.kind = "expression_statement" -> Done(e, errs, o, NoneOpt)
      [] node.kind = "assignment" -> push_err(check_assignment(e, errs, o, node))
      [] node.kind = "binary_operator" -> push_err(check_binop(e, errs, o, node))
      [] node.kind = "function_definition" -> check_function_def(e, errs, o, node)
      [] node.kind = "call" -> push_err(check_fn_call(e, errs, o, node))
      [] node.kind = "module" -> Done(e, errs, o, NoneOpt)
      [] OTHER -> Done(e, errs, o, NoneOpt)

-----------------------------------------------------------------------------
(* Spec: one run of Checker::check_module.                                 *)

HistIdle == [ops |-> 0, guards |-> 0, ins |-> EmptyMap, visits |-> EmptyMap,
             op |-> [name |-> "none"]]

TcIdle == [phase |-> "idle"]

\* Checker::new, and the module to check.
Init ==
    /\ prog \in Programs
    /\ env = Environment_new(FileName)
    /\ errors = <<>>
    /\ out = <<>>
    /\ pos = 1
    /\ status = "running"
    /\ panic_msg = ""
    /\ summary = ""
    /\ hist = HistIdle
    /\ tc = TcIdle

\* The node the walk is at.
Cur == Walk(prog)[pos]

AtNode == status = "running" /\ pos <= Len(Walk(prog))

\* The callback's effect r on the checker: a panic ends the process where
\* it stands, and otherwise the walk goes on to the next node.
Visit(r) ==
    IF r.panic # ""
    THEN /\ status' = "panic"
         /\ panic_msg' = r.panic
         /\ UNCHANGED <<env, errors, out, prog, pos, summary, hist, tc>>
    ELSE /\ env' = r.e
         /\ errors' = r.errs
         /\ out' = r.out
         /\ pos' = pos + 1
         /\ UNCHANGED <<prog, status, panic_msg, summary, hist, tc>>

\* check_visit at an "assignment" node.
VisitAssignment ==
    /\ AtNode
    /\ Cur.kind = "assignment"
    /\ Visit(push_err(check_assignment(env, errors, out, Cur)))

\* check_visit at a "binary_operator" node.
VisitBinaryOperator ==
    /\ AtNode
    /\ Cur.kind = "binary_operator"
    /\ Visit(push_err(check_binop(env, errors, out, Cur)))

\* check_visit at a "function_definition" node.
VisitFunctionDefinition ==
    /\ AtNode
    /\ Cur.kind = "function_definition"
    /\ Visit(check_function_def(env, errors, out, Cur))

\* check_visit at a "call" node.
VisitCall ==
    /\ AtNode
    /\ Cur.kind = "call"
    /\ Visit(push_err(check_fn_call(env, errors, out, Cur)))

\* check_visit at a node of any other kind: nothing is done.
VisitIgnored ==
    /\ AtNode
    /\ Cur.kind \notin {"assignment", "binary_operator", "function_definition", "call"}
    /\ Visit(Done(env, errors, out, NoneOpt))

\* The two ways the program is built: a debug build checks integer
\* arithmetic for overflow and panics, a release build wraps.
Builds == {"debug", "release"}

\* a - b on usize.  When b > a the difference wraps to 2^64 - (b - a):
\* wrapped says so and val is then b - a.
usize_sub(a, b) ==
    IF a >= b THEN [wrapped |-> FALSE, val |-> a - b] ELSE [wrapped |-> TRUE, val |-> b - a]

\* print_errors' underline for a diagnostic with an end place whose
\* num_carrots is n: the subtraction panics in a debug build, and in a
\* release build "^".repeat of the wrapped count exceeds the capacity a
\* string can have.
underline(col, n, build) ==
    IF n.wrapped
    THEN [panic |-> IF build = "debug" THEN "attempt to subtract with overflow"
                    ELSE "capacity overflow",
          lines |-> <<>>]
    ELSE [panic |-> "", lines |-> <<[column |-> col, num_carrots |-> n.val]>>]

\* What print_errors prints under the diagnostic err.
print_underline(err, build) ==
    IF err.end_place = NoneOpt
    THEN [panic |-> "", lines |-> <<[column |-> err.start_place.column]>>]
    ELSE underline(err.start_place.column,
                   usize_sub(err.end_place[1].column, err.start_place.column), build)

\* One turn of print_errors' loop: r is what is printed under the
\* diagnostic at hand.
printed(acc, r) ==
    IF r.panic # "" THEN [acc EXCEPT !.panic = r.panic]
    ELSE [acc EXCEPT !.lines = @ \o r.lines]

RECURSIVE print_loop(_, _, _, _)
\* The loop of print_errors over the diagnostics errs[i..].
print_loop(errs, i, build, acc) ==
    IF i > Len(errs) \/ acc.panic # "" THEN acc
    ELSE print_loop(errs, i + 1, build, printed(acc, print_underline(errs[i], build)))

\* print_errors with what its loop printed, or the panic that ended it.
Report(r) ==
    IF r.panic # ""
    THEN /\ status' = "panic"
         /\ panic_msg' = r.panic
         /\ UNCHANGED <<env, errors, out, prog, pos, summary, hist, tc>>
    ELSE /\ status' = "done"
         /\ summary' = IF Len(errors) = 0 THEN "passed" ELSE "errors"
         /\ out' = out \o r.lines
         /\ UNCHANGED <<env, errors, prog, pos, panic_msg, hist, tc>>

\* Checker::print_errors, once the walk has returned.
print_errors ==
    /\ status = "running"
    /\ pos > Len(Walk(prog))
    /\ \E build \in Builds :
          Report(print_loop(errors, 1, build, [panic |-> "", lines |-> <<>>]))

Next ==
    \/ VisitAssignment
    \/ VisitBinaryOperator
    \/ VisitFunctionDefinition
    \/ VisitCall
    \/ VisitIgnored
    \/ print_errors

Spec == Init /\ [][Next]_vars

-----------------------------------------------------------------------------
(* SpecEnv: the Environment's operations, called in any order on a few     *)
(* scope names, places, types and identifiers.  hist keeps, beside the     *)
(* number of operations, the guards not yet dropped, what was inserted     *)
(* while which scope was on top (ins), how often each scope was entered    *)
(* (visits) and the operation performed last (op).                         *)

ScopeNames == {FileName, "f"}

EnvPlaces == {Place("a", 0, 0), Place("b", 1, 0)}

EnvTypes == {TyString, TyAny}

EnvVars == {"a"}

InitEnv ==
    /\ prog = <<1>>
    /\ env = Environment_new(FileName)
    /\ errors = <<>>
    /\ out = <<>>
    /\ pos = 1
    /\ status = "running"
    /\ panic_msg = ""
    /\ summary = ""
    /\ hist = [HistIdle EXCEPT !.visits = MapPut(EmptyMap, FileName, 1)]
    /\ tc = TcIdle

EnvFrame == UNCHANGED <<errors, out, prog, pos, status, panic_msg, summary, tc>>

\* let guard = env.enter_scope(n)
EnvEnterScope(n) ==
    /\ hist.ops < MaxOps
    /\ env' = enter_scope(env, n)
    /\ hist' = [hist EXCEPT !.ops = @ + 1, !.guards = @ + 1,
                            !.visits = MapPut(@, n, IF n \in DOMAIN @ THEN @[n] + 1 ELSE 1),
                            !.op = [name |-> "enter_scope", scope |-> n]]
    /\ EnvFrame

\* drop(guard), for a guard that enter_scope returned
EnvDropGuard ==
    /\ hist.ops < MaxOps
    /\ hist.guards > 0
    /\ env' = ScopeGuard_drop(env)
    /\ hist' = [hist EXCEPT !.ops = @ + 1, !.guards = @ - 1, !.op = [name |-> "drop"]]
    /\ EnvFrame

\* env.leave_scope()
EnvLeaveScope ==
    /\ hist.ops < MaxOps
    /\ env' = leave_scope(env)
    /\ hist' = [hist EXCEPT !.ops = @ + 1, !.op = [name |-> "leave_scope"]]
    /\ EnvFrame

\* env.insert_binding(pl, ty)
EnvInsertBinding(pl, ty) ==
    /\ hist.ops < MaxOps
    /\ env' = insert_binding(env, pl, ty)
    /\ hist' = [hist EXCEPT
                  !.ops = @ + 1,
                  !.ins = IF last(env) = NoneOpt THEN @
                          ELSE MapPut(@, <<last(env)[1], pl>>,
                                      [ty |-> ty, visit |-> hist.visits[last(env)[1]]]),
                  !.op = [name |-> "insert_binding", pl |-> pl, ty |-> ty]]
    /\ EnvFrame

\* env.insert_var(var, pl)
EnvInsertVar(var, pl) ==
    /\ hist.ops < MaxOps
    /\ env' = insert_var(env, var, pl)
    /\ hist' = [hist EXCEPT !.ops = @ + 1,
                            !.op = [name |-> "insert_var", var |-> var, pl |-> pl]]
    /\ EnvFrame

NextEnv ==
    \/ \E n \in ScopeNames : EnvEnterScope(n)
    \/ EnvDropGuard
    \/ EnvLeaveScope
    \/ \E pl \in EnvPlaces, ty \in EnvTypes : EnvInsertBinding(pl, ty)
    \/ \E var \in EnvVars, pl \in EnvPlaces : EnvInsertVar(var, pl)

SpecEnv == InitEnv /\ [][NextEnv]_vars

-----------------------------------------------------------------------------
(* SpecTy: type_check applied to two type values.                          *)

SamplePlace == Place("exp", 0, 4)

TypeSamples ==
    {TyAny, TyString, TyNone}
    \cup {TyInteger(v) : v \in 0..MaxInt}
    \cup {TyVar(SamplePlace), TyBinOp(SamplePlace),
          TyCall(SamplePlace, <<TyString, TyString>>, <<TyString>>),
          TyFunction(SamplePlace, <<TyAny>>, <<TyNone>>),
          TyFunction(Place("f", 1, 0), <<>>, <<TyInteger(1), TyString>>)}
    \cup {TyUnion(<<>>), TyUnion(<<TyAny>>), TyUnion(<<TyInteger(1), TyString>>),
          TyUnion(<<TyNone, TyVar(SamplePlace)>>)}

InitTy ==
    /\ prog = <<1>>
    /\ env = Environment_new(FileName)
    /\ errors = <<>>
    /\ out = <<>>
    /\ pos = 1
    /\ status = "running"
    /\ panic_msg = ""
    /\ summary = ""
    /\ hist = HistIdle
    /\ tc \in {[phase |-> "input", a |-> a, b |-> b] : a \in TypeSamples, b \in TypeSamples}

\* tc.a.type_check(&tc.b)
TcApply ==
    /\ tc.phase = "input"
    /\ tc' = [phase |-> "output", a |-> tc.a, b |-> tc.b, res |-> type_check(tc.a, tc.b)]
    /\ UNCHANGED <<env, errors, out, prog, pos, status, panic_msg, summary, hist>>

NextTy == TcApply

SpecTy == InitTy /\ [][NextTy]_vars

-----------------------------------------------------------------------------
(* The claims.                                                             *)

\* C1: during a check run every scope pushed by check_function_def or
\* check_fn_call is popped again on every way out of the handler (normal
\* completion, the arity-mismatch early return, a callee that is not a
\* Function): after every visited node the live stack is what it was
\* before, the module-level scope alone, and it is never empty.
C1_LiveStackIsModuleScopeAlone == env.live_scopes = <<FileName>>

\* C1's case: a run that defined f and then left check_fn_call by the
\* arity-mismatch early return has ended with the module scope alone live.
C1_Witness ==
    /\ status = "done"
    /\ "f" \in DOMAIN env.scopes
    /\ \E i \in 1..Len(errors) : errors[i].msg = "Fn called with args expected"
    /\ env.live_scopes = <<FileName>>

\* C2: a scope created under a name is never discarded and is reused on
\* re-entry.  Every scope ever entered is in the registry; what was
\* inserted while scope N was on top is still in N's table; it is what
\* lookup_binding finds whenever N is on top again; and a place that was
\* inserted into no live scope is not found.
C2_ScopePersistsAndIsReused ==
    /\ \A n \in DOMAIN hist.visits : n \in DOMAIN env.scopes
    /\ \A k \in DOMAIN hist.ins :
          /\ k[1] \in DOMAIN env.scopes
          /\ Scope_lookup_place(env.scopes[k[1]], k[2]) = Some(hist.ins[k].ty)
          /\ last(env) = Some(k[1]) => lookup_binding(env, k[2]) = Some(hist.ins[k].ty)
    /\ \A pl \in EnvPlaces :
          (\A i \in 1..Len(env.live_scopes) : <<env.live_scopes[i], pl>> \notin DOMAIN hist.ins)
              => lookup_binding(env, pl) = NoneOpt

\* C2's case: scope f is on top on its second visit, and a binding made on
\* its first visit, which the module scope does not hold, is found again.
C2_Witness ==
    /\ last(env) = Some("f")
    /\ hist.visits["f"] = 2
    /\ \E pl \in EnvPlaces :
          /\ <<"f", pl>> \in DOMAIN hist.ins
          /\ hist.ins[<<"f", pl>>].visit = 1
          /\ <<FileName, pl>> \notin DOMAIN hist.ins
          /\ lookup_binding(env, pl) = Some(hist.ins[<<"f", pl>>].ty)

\* The live frames, by index, whose scope binds place pl / names var.
FramesBinding(pl) ==
    {i \in 1..Len(env.live_scopes) : pl \in DOMAIN env.scopes[env.live_scopes[i]].bindings}

FramesNaming(var) ==
    {i \in 1..Len(env.live_scopes) : var \in DOMAIN env.scopes[env.live_scopes[i]].var_place_map}

Innermost(frames) == CHOOSE i \in frames : \A j \in frames : j <= i

\* C3: lookup_binding and lookup_var return the entry of the innermost live
\* scope that has one, fall back outwards to the enclosing live scopes, and
\* never consult a scope that is registered but not live.
C3_LookupIsInnermostLiveFirst ==
    /\ \A pl \in EnvPlaces :
          lookup_binding(env, pl) =
            IF FramesBinding(pl) = {} THEN NoneOpt
            ELSE Some(env.scopes[env.live_scopes[Innermost(FramesBinding(pl))]].bindings[pl])
    /\ \A var \in EnvVars :
          lookup_var(env, var) =
            IF FramesNaming(var) = {} THEN NoneOpt
            ELSE Some(env.scopes[env.live_scopes[Innermost(FramesNaming(var))]]
                          .var_place_map[var])

\* C3's case: the inner live scope f and the outer module scope bind the
\* same place to different types, and the lookup gives the inner one's.
C3_Witness ==
    /\ env.live_scopes = <<FileName, "f">>
    /\ \E pl \in EnvPlaces :
          /\ pl \in DOMAIN env.scopes["f"].bindings
          /\ pl \in DOMAIN env.scopes[FileName].bindings
          /\ env.scopes["f"].bindings[pl] # env.scopes[FileName].bindings[pl]
          /\ lookup_binding(env, pl) = Some(env.scopes["f"].bindings[pl])

\* What an insertion may change: the scope on top, and nothing if the
\* stack is empty.
OnlyTopScopeChanges ==
    /\ env'.live_scopes = env.live_scopes
    /\ DOMAIN env'.scopes = DOMAIN env.scopes
    /\ \A n \in DOMAIN env.scopes : last(env) # Some(n) => env'.scopes[n] = env.scopes[n]

\* C4: insert_binding(place, type) and insert_var(name, place) modify only
\* the scope on top of the live stack: the stack, the registry and every
\* other scope are unchanged, and in the top scope only the entry for that
\* place / name changes, to the value given.
C4_InsertWritesTopScopeOnly ==
    [][/\ hist'.op.name = "insert_binding" =>
            /\ OnlyTopScopeChanges
            /\ last(env) # NoneOpt =>
                 /\ env'.scopes[last(env)[1]].var_place_map
                        = env.scopes[last(env)[1]].var_place_map
                 /\ env'.scopes[last(env)[1]].bindings
                        = MapPut(env.scopes[last(env)[1]].bindings, hist'.op.pl, hist'.op.ty)
       /\ hist'.op.name = "insert_var" =>
            /\ OnlyTopScopeChanges
            /\ last(env) # NoneOpt =>
                 /\ env'.scopes[last(env)[1]].bindings = env.scopes[last(env)[1]].bindings
                 /\ env'.scopes[last(env)[1]].var_place_map
                        = MapPut(env.scopes[last(env)[1]].var_place_map,
                                 hist'.op.var, hist'.op.pl)
      ]_vars

\* C4's case: a binding has just been inserted while scope f was on top of
\* the module scope; f holds it and the module scope does not.
C4_Witness ==
    /\ hist.op.name = "insert_binding"
    /\ env.live_scopes = <<FileName, "f">>
    /\ hist.op.pl \in DOMAIN env.scopes["f"].bindings
    /\ hist.op.pl \notin DOMAIN env.scopes[FileName].bindings

\* The compatibility predicate as the specification words it, for two type
\* values that are not both Union.
Compatible(a, b) ==
    IF a.tag = "Any" \/ b.tag = "Any" THEN TRUE
    ELSE IF a.tag = "Union" THEN b \in Range(a.tys)
    ELSE IF b.tag = "Union" THEN a \in Range(b.tys)
    ELSE a.tag = b.tag

\* C5: for every pair of type values that are not both Union, type_check
\* returns (without panicking) true if either is Any; if exactly one is
\* Union(ts), true iff the other is a member of ts; and otherwise true iff
\* the two have the same variant tag, whatever their payloads.
C5_TypeCheckIsCompatibility ==
    (tc.phase = "output" /\ ~(tc.a.tag = "Union" /\ tc.b.tag = "Union"))
        => (tc.res.panic = "" /\ tc.res.ok = Compatible(tc.a, tc.b))

\* C5's case: two Integers of different payload have been found compatible.
C5_Witness ==
    /\ tc.phase = "output"
    /\ tc.a.tag = "Integer" /\ tc.b.tag = "Integer" /\ tc.a # tc.b
    /\ tc.res.ok

\* An identifier node that has no live binding in the scopes of e.
Unbound(e, n) == n.kind = "identifier" /\ var_type(e, utf8_text(n)) = NoneOpt

\* The field f of node n is an identifier unbound in e.
UnboundField(e, n, f) ==
    /\ child_by_field_name(n, f) # NoneOpt
    /\ Unbound(e, child_by_field_name(n, f)[1])

\* The callee's name and the argument nodes of the call the walk is at, and
\* what the name is bound to before the call is checked.
CallName == utf8_text(child_by_field_name(Cur, "function")[1])

CallArgs == named_children(child_by_field_name(Cur, "arguments")[1])

CallSig == var_type(env, CallName)

CallToFunction ==
    /\ AtNode
    /\ Cur.kind = "call"
    /\ CallName # "reveal_type"
    /\ CallSig # NoneOpt
    /\ CallSig[1].tag = "Function"

\* The walk is at a node that uses an unbound identifier as a value: as the
\* right side of an assignment, as an operand of a binary operation, or as
\* an argument of a call to a function.
UsesUndefinedIdentifier ==
    /\ AtNode
    /\ \/ Cur.kind = "assignment" /\ UnboundField(env, Cur, "right")
       \/ Cur.kind = "binary_operator"
            /\ (UnboundField(env, Cur, "left") \/ UnboundField(env, Cur, "right"))
       \/ CallToFunction
            /\ \E i \in 1..Len(CallArgs) : Unbound(enter_scope(env, CallName), CallArgs[i])

\* C6: an identifier with no live binding in any active scope, used as a
\* value, makes the handler append a diagnostic to the error list, and the
\* traversal goes on with the following node; the run is never aborted.
C6_UndefinedIdentifierIsDiagnosed ==
    [][UsesUndefinedIdentifier =>
          /\ status' = "running"
          /\ pos' = pos + 1
          /\ Len(errors') > Len(errors)
      ]_vars

RECURSIVE SpecTypeOf(_)
\* The type the specification's rules give an expression made of literals
\* and binary operations: "int", "str", "bad" for an operand pair the rule
\* table rejects, "unknown" for anything else.
SpecTypeOf(n) ==
    CASE n.kind = "integer" -> "int"
      [] n.kind = "string" -> "str"
      [] n.kind = "binary_operator" ->
            IF /\ SpecTypeOf(child_by_field_name(n, "left")[1])
                    = SpecTypeOf(child_by_field_name(n, "right")[1])
               /\ SpecTypeOf(child_by_field_name(n, "left")[1]) \in {"int", "str"}
            THEN SpecTypeOf(child_by_field_name(n, "left")[1])
            ELSE "bad"
      [] OTHER -> "unknown"

\* A statement over literals that violates no rule: an expression of type
\* int or str, or an assignment of one whose annotation, if any, names the
\* value's type.
StmtWellTyped(st) ==
    /\ st.kind = "expression_statement"
    /\ named_child(st, 0) # NoneOpt
    /\ IF named_child(st, 0)[1].kind = "assignment"
       THEN /\ child_by_field_name(named_child(st, 0)[1], "right") # NoneOpt
            /\ SpecTypeOf(child_by_field_name(named_child(st, 0)[1], "right")[1])
                  \in {"int", "str"}
            /\ child_by_field_name(named_child(st, 0)[1], "type") # NoneOpt =>
                  utf8_text(child_by_field_name(named_child(st, 0)[1], "type")[1])
                    = SpecTypeOf(child_by_field_name(named_child(st, 0)[1], "right")[1])
       ELSE SpecTypeOf(named_child(st, 0)[1]) \in {"int", "str"}

WellTyped(p) ==
    \A i \in 1..Len(named_children(parse(p))) : StmtWellTyped(named_children(parse(p))[i])

\* C7: for a module with no type violations, a well-typed binary operation
\* as a value included, the diagnostic list at the end of check_module is
\* empty and the success summary is reported.
C7_WellTypedModulePasses ==
    (status = "done" /\ WellTyped(prog)) => (errors = <<>> /\ summary = "passed")

\* C8: a check run always goes on to the final report, whatever the input
\* module: no construct of the module stops it before the report is made.
C8_RunReachesReport == status \in {"running", "done"}

\* The walk is at a binary operation whose operands' types are inferred
\* and are neither (Integer, Integer) nor (String, String).
BadBinop ==
    /\ AtNode
    /\ Cur.kind = "binary_operator"
    /\ child_by_field_name(Cur, "left") # NoneOpt
    /\ child_by_field_name(Cur, "right") # NoneOpt
    /\ infer_type_for_node(env, child_by_field_name(Cur, "left")[1]).ty # NoneOpt
    /\ infer_type_for_node(env, child_by_field_name(Cur, "right")[1]).ty # NoneOpt
    /\ <<infer_type_for_node(env, child_by_field_name(Cur, "left")[1]).ty[1].tag,
         infer_type_for_node(env, child_by_field_name(Cur, "right")[1]).ty[1].tag>>
          \notin {<<"Integer", "Integer">>, <<"String", "String">>}

\* C9: a binary operation whose operand types are neither (Integer,
\* Integer) nor (String, String) appends exactly one diagnostic, placed at
\* the operator node's start, inserts no binding, and the walk goes on to
\* the next node; and the module  c = 1 + "x"  ends with one diagnostic.
C9_BadBinopOneDiagnosticNoBinding ==
    /\ [][BadBinop =>
            /\ status' = "running"
            /\ pos' = pos + 1
            /\ env' = env
            /\ Len(errors') = Len(errors) + 1
            /\ SubSeq(errors', 1, Len(errors)) = errors
            /\ errors'[Len(errors')].start_place = from_ts_point("binop", Cur.sp)
         ]_vars
    /\ []((status = "done" /\ prog = <<1>>) => Len(errors) = 1)

\* C9's case: the run on  c = 1 + "x"  has ended, its one diagnostic being
\* the binary operation's.
C9_Witness ==
    /\ status = "done"
    /\ prog = <<1>>
    /\ Len(errors) = 1
    /\ errors[1].msg = "Invalid types for BinOp"
    /\ errors[1].start_place.name = "binop"

\* The indices at which an argument's type is not compatible with the
\* parameter's, for a call whose argument and parameter counts agree.
Mismatches ==
    {i \in 1..Len(CallArgs) :
        ~type_check(infer_type_for_node(env, CallArgs[i]).ty[1], CallSig[1].params[i]).ok}

\* The diagnostics appended by the step.
Appended == SubSeq(errors', Len(errors) + 1, Len(errors'))

\* C10: a call to a name bound to a Function whose argument count differs
\* from the parameter count appends exactly one arity diagnostic spanning
\* the call and no type diagnostic; otherwise it appends one type-mismatch
\* diagnostic for each index whose argument fails type_check against the
\* parameter, and no arity diagnostic.  And  def f(x: int) -> int: return x
\* followed by  f("a")  ends with exactly one type-mismatch diagnostic and
\* no arity diagnostic.
C10_CallArityAndArgumentDiagnostics ==
    /\ [][(/\ CallToFunction
           /\ \A i \in 1..Len(CallArgs) :
                 infer_type_for_node(env, CallArgs[i]).ty # NoneOpt) =>
            /\ status' = "running"
            /\ SubSeq(errors', 1, Len(errors)) = errors
            /\ IF Len(CallArgs) # Len(CallSig[1].params)
               THEN /\ Len(Appended) = 1
                    /\ Appended[1].msg = "Fn called with args expected"
                    /\ Appended[1].start_place = from_ts_point("fncall", Cur.sp)
                    /\ Appended[1].end_place = Some(from_ts_point("fncall", Cur.ep))
               ELSE /\ Len(Appended) = Cardinality(Mismatches)
                    /\ \A k \in 1..Len(Appended) :
                          Appended[k].msg = "Type mismatch calling fn"
         ]_vars
    /\ []((prog = <<11, 17>> /\ status # "running") =>
            /\ status = "done"
            /\ Cardinality({k \in 1..Len(errors) :
                              errors[k].msg = "Type mismatch calling fn"}) = 1
            /\ \A k \in 1..Len(errors) : errors[k].msg # "Fn called with args expected")

\* The walk is at a function definition; its name, parameter nodes and
\* body, and the checker's state inside the function's scope once the
\* parameters are registered.
AtFunctionDef == AtNode /\ Cur.kind = "function_definition"

DefName == utf8_text(child_by_field_name(Cur, "name")[1])

DefParams == named_children(child_by_field_name(Cur, "parameters")[1])

DefBody == child_by_field_name(Cur, "body")[1]

DefScope ==
    param_loop([e |-> enter_scope(env, DefName), types |-> <<>>, panic |-> ""], DefParams, 1)

IsReturn(n) == n.kind = "return_statement"

\* The return statements of the body, in source order, and their types.
DefReturns == SelectSeq(visit_all_children(DefBody), IsReturn)

DefReturnType(i) == infer_type_for_node(DefScope.e, DefReturns[i])

\* The function definition declares a known result type and the types of
\* its parameters and returns can all be inferred.
DeclaresResult ==
    /\ AtFunctionDef
    /\ child_by_field_name(Cur, "return_type") # NoneOpt
    /\ from_type_str(utf8_text(child_by_field_name(Cur, "return_type")[1])) # NoneOpt
    /\ DefScope.panic = ""
    /\ \A i \in 1..Len(DefReturns) : DefReturnType(i).ty # NoneOpt

DeclaredResult == from_type_str(utf8_text(child_by_field_name(Cur, "return_type")[1]))[1]

\* The returns whose type fails type_check against the declared type.
FailingReturns ==
    {i \in 1..Len(DefReturns) : ~type_check(DeclaredResult, DefReturnType(i).ty[1]).ok}

\* C11: under a declared result type every return statement is checked
\* with type_check(declared, found): one diagnostic, placed at that return
\* statement, for each return that fails it and none for a return that
\* passes it (an Any-typed parameter passes under any declared type); so a
\* -> str function with two int returns and a return of an untyped
\* parameter ends with exactly two diagnostics.
C11_DeclaredResultCheckedByTypeCheck ==
    /\ [][DeclaresResult =>
            /\ status' = "running"
            /\ SubSeq(errors', 1, Len(errors)) = errors
            /\ Len(Appended) = Cardinality(FailingReturns)
            /\ {Appended[k].start_place : k \in 1..Len(Appended)}
                  = {from_ts_point("start", DefReturns[i].sp) : i \in FailingReturns}
         ]_vars
    /\ []((prog = <<16>> /\ status = "done") => Len(errors) = 2)

\* The function definition has no result annotation and the types of its
\* parameters and returns can all be inferred.
InfersResult ==
    /\ AtFunctionDef
    /\ child_by_field_name(Cur, "return_type") = NoneOpt
    /\ DefScope.panic = ""
    /\ \A i \in 1..Len(DefReturns) : DefReturnType(i).ty # NoneOpt

\* The result-type set of the definition: {None} without a return
\* statement, and otherwise the types of the return statements.
ResultTypeSet ==
    IF Len(DefReturns) = 0 THEN {TyNone}
    ELSE {DefReturnType(i).ty[1] : i \in 1..Len(DefReturns)}

\* The walk is at an assignment without annotation whose right side is a
\* call of a name bound to a Function; the name assigned and the callee's
\* result types.
AssignsCallValue ==
    /\ AtNode
    /\ Cur.kind = "assignment"
    /\ child_by_field_name(Cur, "type") = NoneOpt
    /\ child_by_field_name(Cur, "right")[1].kind = "call"
    /\ var_type(env, utf8_text(child_by_field_name(
                        child_by_field_name(Cur, "right")[1], "function")[1])) # NoneOpt
    /\ var_type(env, utf8_text(child_by_field_name(
                        child_by_field_name(Cur, "right")[1], "function")[1]))[1].tag
          = "Function"

CalleeResults ==
    Range(var_type(env, utf8_text(child_by_field_name(
                           child_by_field_name(Cur, "right")[1], "function")[1]))[1].rets)

AssignedName == utf8_text(child_by_field_name(Cur, "left")[1])

\* C12: a function definition without a result annotation is bound to
\* Function(place, parameter types, result types) whose result-type set is
\* {None} if the body has no return statement and otherwise the types of
\* its return statements; a later call used as a value has the set's single
\* member as its type when the set has exactly one member, and the Union of
\* the members when it has more than one.
C12_InferredResultSetAndCallType ==
    [][/\ InfersResult =>
            /\ status' = "running"
            /\ var_type(env', DefName) # NoneOpt
            /\ var_type(env', DefName)[1].tag = "Function"
            /\ var_type(env', DefName)[1].place = from_ts_point(DefName, Cur.sp)
            /\ var_type(env', DefName)[1].params = DefScope.types
            /\ Range(var_type(env', DefName)[1].rets) = ResultTypeSet
       /\ AssignsCallValue =>
            /\ status' = "running"
            /\ var_type(env', AssignedName) # NoneOpt
            /\ IF Cardinality(CalleeResults) = 1
               THEN var_type(env', AssignedName)[1] \in CalleeResults
               ELSE /\ var_type(env', AssignedName)[1].tag = "Union"
                    /\ Range(var_type(env', AssignedName)[1].tys) = CalleeResults
      ]_vars

\* The walk is at a call of a name bound to a Function whose arguments'
\* types can all be inferred.
CallOfDefined ==
    /\ CallToFunction
    /\ \A i \in 1..Len(CallArgs) :
          infer_type_for_node(enter_scope(env, CallName), CallArgs[i]).ty # NoneOpt

\* C13: after f is defined, every call of f resolves f to the Function
\* type bound in the enclosing scope at definition time; the call changes
\* neither f's binding nor any scope's contents, and what it checks is
\* determined by that Function type and the arguments alone, so that a
\* repeated call checks what the first one did.
C13_CallResolvesDefinitionAndLeavesEnv ==
    [][CallOfDefined =>
          /\ var_type(enter_scope(env, CallName), CallName) = CallSig
          /\ status' = "running"
          /\ env' = env
          /\ Len(Appended) = IF Len(CallArgs) # Len(CallSig[1].params) THEN 1
                             ELSE Cardinality(Mismatches)
      ]_vars

\* The walk is at a call of reveal_type.
AtRevealType == AtNode /\ Cur.kind = "call" /\ CallName = "reveal_type"

\* C14: a reveal_type call with exactly one bound identifier as argument
\* appends no diagnostic (and prints one line); with no argument or with
\* two or more it appends exactly one diagnostic; in every case no scope
\* is pushed and the environment is left as it was.
C14_RevealTypeArityAndEnv ==
    [][AtRevealType =>
          /\ status' = "running"
          /\ pos' = pos + 1
          /\ env' = env
          /\ SubSeq(errors', 1, Len(errors)) = errors
          /\ (Len(CallArgs) = 1 /\ CallArgs[1].kind = "identifier"
                /\ var_type(env, utf8_text(CallArgs[1])) # NoneOpt) =>
                (errors' = errors /\ Len(out') = Len(out) + 1)
          /\ Len(CallArgs) # 1 => Len(Appended) = 1
      ]_vars

\* C14's case: after  x = 1  the call  reveal_type(x)  has printed x's type
\* and the run has ended without a diagnostic.
C14_Witness ==
    /\ status = "done"
    /\ prog = <<2, 23>>
    /\ errors = <<>>
    /\ Len(out) = 1
    /\ out[1].arg = "x"
    /\ out[1].ty = TyInteger(1)
    /\ env.live_scopes = <<FileName>>
    /\ DOMAIN env.scopes = {FileName}

\* The inferred type of the right side of the assignment the walk is at,
\* and the declared type of an annotated one.
AssignedValue == infer_type_for_node(env, child_by_field_name(Cur, "right")[1])

AssignDeclared == from_type_str(utf8_text(child_by_field_name(Cur, "type")[1]))

Annotated == child_by_field_name(Cur, "type") # NoneOpt

\* The walk is at an assignment whose right side's type can be inferred
\* and whose annotation, if any, names a type.
AssignmentProcessed ==
    /\ AtNode
    /\ Cur.kind = "assignment"
    /\ AssignedValue.ty # NoneOpt
    /\ Annotated => AssignDeclared # NoneOpt

\* C15: after an assignment to x is processed, with or without a mismatch
\* diagnostic, x resolves in the current scope to the place of this
\* assignment's left side (replacing what an earlier assignment to x
\* registered) and var_type(x) is the declared type of an annotated
\* assignment and the right side's inferred type otherwise; an annotated
\* assignment appends exactly one diagnostic iff type_check(declared,
\* inferred) is false, and an assignment without annotation appends none.
C15_AssignmentBindsAndShadows ==
    [][AssignmentProcessed =>
          /\ status' = "running"
          /\ env'.live_scopes = env.live_scopes
          /\ Scope_lookup_var(env'.scopes[last(env)[1]], AssignedName)
                = Some(from_ts_point(AssignedName, child_by_field_name(Cur, "left")[1].sp))
          /\ lookup_var(env', AssignedName)
                = Some(from_ts_point(AssignedName, child_by_field_name(Cur, "left")[1].sp))
          /\ var_type(env', AssignedName)
                = IF Annotated THEN AssignDeclared ELSE AssignedValue.ty
          /\ SubSeq(errors', 1, Len(errors)) = errors
          /\ Len(Appended)
                = IF Annotated /\ ~type_check(AssignDeclared[1], AssignedValue.ty[1]).ok
                  THEN 1 ELSE 0
      ]_vars

\* C15's case: after  x = 1  the mismatching  x: str = 1  on the next line
\* has given one diagnostic, and x resolves to the second assignment's
\* place and has the declared type.
C15_Witness ==
    /\ status = "done"
    /\ prog = <<2, 5>>
    /\ Len(errors) = 1
    /\ errors[1].msg = "Mismatched types while assigning"
    /\ lookup_var(env, "x") = Some(Place("x", 1, 0))
    /\ var_type(env, "x") = Some(TyString)
    /\ lookup_binding(env, Place("x", 0, 0)) = Some(TyInteger(1))

\* The name a parameter declares, and its type: the annotation's for a
\* typed parameter, Any for an untyped one.
ParamName(p) ==
    IF p.kind = "typed_parameter" THEN utf8_text(named_child(p, 0)[1]) ELSE utf8_text(p)

ParamType(p) ==
    IF p.kind = "typed_parameter"
    THEN from_type_str(utf8_text(child_by_field_name(p, "type")[1]))
    ELSE Some(TyAny)

\* The returns of the body that return the parameter p.
ReturnsOf(p) ==
    {i \in 1..Len(DefReturns) :
        /\ named_child(DefReturns[i], 0) # NoneOpt
        /\ named_child(DefReturns[i], 0)[1].kind = "identifier"
        /\ utf8_text(named_child(DefReturns[i], 0)[1]) = ParamName(p)}

\* C16: when a function definition is processed every declared parameter,
\* typed or untyped, is registered under its name in the function's scope
\* with its place bound to the annotation's type or to Any: while that
\* scope is live var_type(parameter name) is that type, and a return of
\* the parameter in the body is inferred as that type.
C16_ParametersRegisteredByName ==
    [][(AtFunctionDef /\ DefScope.panic = "") =>
          \A k \in 1..Len(DefParams) :
              /\ var_type(DefScope.e, ParamName(DefParams[k])) = ParamType(DefParams[k])
              /\ \A i \in ReturnsOf(DefParams[k]) :
                    DefReturnType(i) = TyOk(ParamType(DefParams[k])[1])
      ]_vars

\* The diagnostics that carry an end place, and the underlines printed.
HasEnd(err) == err.end_place # NoneOpt

IsUnderline(l) == "num_carrots" \in DOMAIN l

\* C17: for every diagnostic that carries an end place the underline width
\* print_errors computes, end.column - start.column on unsigned integers,
\* is a valid caret count, whatever diagnostic the checker has produced,
\* one whose span covers several lines included: rendering never fails on
\* it, and the report holds, for each such diagnostic in order, an
\* underline of end.column - start.column >= 0 carets.
C17_UnderlineWidthIsCaretCount ==
    /\ panic_msg \notin {"attempt to subtract with overflow", "capacity overflow"}
    /\ status = "done" =>
          /\ Len(SelectSeq(out, IsUnderline)) = Len(SelectSeq(errors, HasEnd))
          /\ \A i \in 1..Len(SelectSeq(errors, HasEnd)) :
                /\ SelectSeq(out, IsUnderline)[i].num_carrots
                      = SelectSeq(errors, HasEnd)[i].end_place[1].column
                          - SelectSeq(errors, HasEnd)[i].start_place.column
                /\ SelectSeq(out, IsUnderline)[i].num_carrots >= 0

\* The function definitions named n among the first upto nodes of the
\* walk w, and the places check_function_def gives their parameters.
DefsPassed(w, upto, n) ==
    {i \in 1..upto :
        /\ i <= Len(w)
        /\ w[i].kind = "function_definition"
        /\ utf8_text(child_by_field_name(w[i], "name")[1]) = n}

ParamNodes(d) == named_children(child_by_field_name(d, "parameters")[1])

ParamPlaces(w, upto, n) ==
    UNION {{from_ts_point(utf8_text(ParamNodes(w[i])[k]), ParamNodes(w[i])[k].sp) :
                k \in 1..Len(ParamNodes(w[i]))} : i \in DefsPassed(w, upto, n)}

\* The scope sc holds entries for the given places only.
HoldsOnly(sc, places) ==
    /\ DOMAIN sc.bindings \subseteq places
    /\ \A var \in DOMAIN sc.var_place_map : sc.var_place_map[var] \in places

\* Point a is at or before point b in the source.
AtOrBefore(a, b) == a.row < b.row \/ (a.row = b.row /\ a.column <= b.column)

\* The node the walk is at lies in the body of a function definition.
InFunctionBody ==
    \E i \in 1..Len(Walk(prog)) :
        /\ Walk(prog)[i].kind = "function_definition"
        /\ AtOrBefore(child_by_field_name(Walk(prog)[i], "body")[1].sp, Cur.sp)
        /\ AtOrBefore(Cur.ep, child_by_field_name(Walk(prog)[i], "body")[1].ep)

\* C18: the statements of a function body are processed by the main walk
\* after the function's scope has been popped.  In every reachable state a
\* function-named scope holds only entries inserted for parameters of
\* definitions of that name (calls insert nothing into it), and an
\* assignment or binary operation inside a body writes its bindings into
\* the module scope and leaves every function-named scope as it was.
C18_BodyStatementsBindInModuleScope ==
    /\ [](\A n \in DOMAIN env.scopes \ {FileName} :
            HoldsOnly(env.scopes[n], ParamPlaces(Walk(prog), pos - 1, n)))
    /\ [][(AtNode /\ Cur.kind \in {"assignment", "binary_operator"} /\ InFunctionBody) =>
            /\ (status' = "running" /\ errors' = errors) =>
                  env'.scopes[FileName] # env.scopes[FileName]
            /\ env'.live_scopes = <<FileName>>
            /\ \A n \in DOMAIN env.scopes \ {FileName} : env'.scopes[n] = env.scopes[n]
         ]_vars

\* C18's case: the run on  def h(a): y = 1 + 2  has ended; y and the binary
\* operation are bound in the module scope and h's scope holds the
\* parameter a alone.
C18_Witness ==
    /\ status = "done"
    /\ prog = <<26>>
    /\ Scope_lookup_var(env.scopes[FileName], "y") = Some(Place("y", 0, 10))
    /\ Place("binop", 0, 14) \in DOMAIN env.scopes[FileName].bindings
    /\ DOMAIN env.scopes["h"].var_place_map = {"a"}
    /\ DOMAIN env.scopes["h"].bindings = {Place("a", 0, 6)}

=============================================================================
